---- MODULE Spec2Model ----
(***************************************************************************)
(* Model of change_tempo_and_pitch_via_sample_rate.py: one run of main(),  *)
(* which parses the command line, opens a WAV file with the wave module,   *)
(* derives the output path, and writes a copy of the frames under a new    *)
(* sample rate.  Text (paths, arguments, printed numbers) is modelled as   *)
(* sequences of one-character strings; a file is modelled by its RIFF      *)
(* structure (magic, form type, list of chunks).                           *)
(***************************************************************************)
EXTENDS Integers, Sequences, FiniteSets, TLC

\* Largest frame count of a generated input file.
MaxFrames == 2

----------------------------------------------------------------------------
\* Text helpers (Python str operations used by the script)

\* str.rfind(c): highest 0-based index of c in s, or -1
rfind(s, c) ==
  LET hits == {i \in 1..Len(s) : s[i] = c}
  IN  IF hits = {} THEN -1
      ELSE (CHOOSE i \in hits : \A j \in hits : j <= i) - 1

\* s[lo:hi] with Python's clamping of a 0-based slice; hi may be negative
PySlice(s, lo, hi) ==
  LET n  == Len(s)
      h0 == IF hi < 0 THEN n + hi ELSE hi
      h  == IF h0 < 0 THEN 0 ELSE IF h0 > n THEN n ELSE h0
      l  == IF lo < 0 THEN 0 ELSE IF lo > n THEN n ELSE lo
  IN  IF l >= h THEN << >> ELSE [i \in 1..(h - l) |-> s[l + i]]

DigitChars == <<"0", "1", "2", "3", "4", "5", "6", "7", "8", "9">>

IsDigit(c) == \E d \in 1..10 : DigitChars[d] = c

DigitVal(c) == (CHOOSE d \in 1..10 : DigitChars[d] = c) - 1

\* Decimal rendering of an integer, as an f-string renders {n}
RECURSIVE NatToStr(_)
NatToStr(n) ==
  IF n < 10 THEN <<DigitChars[n + 1]>>
  ELSE NatToStr(n \div 10) \o <<DigitChars[(n % 10) + 1]>>

IntToStr(n) == IF n < 0 THEN <<"-">> \o NatToStr(0 - n) ELSE NatToStr(n)

\* str.strip() restricted to the blank character
RECURSIVE Strip(_)
Strip(s) ==
  IF s = << >> THEN s
  ELSE IF Head(s) = " " THEN Strip(Tail(s))
  ELSE IF s[Len(s)] = " " THEN Strip(SubSeq(s, 1, Len(s) - 1))
  ELSE s

HasSign(s) == s # << >> /\ Head(s) \in {"+", "-"}

Unsigned(s) == IF HasSign(s) THEN Tail(s) ELSE s

\* digits, optionally grouped by single underscores
IsDigitString(s) ==
  /\ s # << >>
  /\ IsDigit(s[1])
  /\ IsDigit(s[Len(s)])
  /\ \A i \in 1..Len(s) : IsDigit(s[i]) \/ s[i] = "_"
  /\ \A i \in 1..(Len(s) - 1) : ~(s[i] = "_" /\ s[i + 1] = "_")

RECURSIVE DigitsValue(_, _)
DigitsValue(s, acc) ==
  IF s = << >> THEN acc
  ELSE IF Head(s) = "_" THEN DigitsValue(Tail(s), acc)
  ELSE DigitsValue(Tail(s), 10 * acc + DigitVal(Head(s)))

\* int(s) raises ValueError exactly when this is FALSE
int_accepts(s) == IsDigitString(Unsigned(Strip(s)))

\* value of int(s) for an accepted s
int_value(s) ==
  LET t == Strip(s)
      v == DigitsValue(Unsigned(t), 0)
  IN  IF HasSign(t) /\ Head(t) = "-" THEN 0 - v ELSE v

----------------------------------------------------------------------------
\* get_path_name and the output file name

\* Python's None, as returned for the path of a bare file name
None == <<"None">>

\* get_path_name(path_name_wav): the tuple (path, name)
get_path_name(path_name_wav) ==
  LET a == rfind(path_name_wav, "/")
      b == rfind(path_name_wav, "\\")
      end_of_path == IF a > b THEN a ELSE b
      name == PySlice(path_name_wav, end_of_path + 1, -4)
      path == IF end_of_path > -1
              THEN PySlice(path_name_wav, 0, end_of_path + 1)
              ELSE None
  IN  <<path, name>>

SuffixText ==
  <<"-", "-", "s", "a", "m", "p", "l", "e", "_", "r", "a", "t", "e", "_",
    "c", "h", "a", "n", "g", "e", "d", "_", "_">>

ToText == <<"_", "t", "o", "_">>

WavExt == <<".", "w", "a", "v">>

\* input_wav_name + f"--sample_rate_changed__{old}_to_{new}"
output_wav_name(input_wav_name, old_sample_rate, new_rate) ==
  input_wav_name \o SuffixText \o IntToStr(old_sample_rate)
                 \o ToText \o IntToStr(new_rate)

----------------------------------------------------------------------------
\* Files and the wave module's reader (Wave_read)

WAVE_FORMAT_PCM == 1

\* One RIFF chunk.  A "fmt " chunk uses tag/nchannels/framerate/bits; any
\* other chunk uses size (the declared length) and bytes (the payload bytes
\* really present in the file, fewer than size when the file is cut short).
Chunk(id, size, tag, nchannels, framerate, bits, bytes) ==
  [id |-> id, size |-> size, tag |-> tag, nchannels |-> nchannels,
   framerate |-> framerate, bits |-> bits, bytes |-> bytes]

FmtChunk(tag, nchannels, framerate, bits) ==
  Chunk("fmt ", 16, tag, nchannels, framerate, bits, << >>)

DataChunk(size, bytes) == Chunk("data", size, 0, 0, 0, 0, bytes)

\* magic: bytes 0..3 ("" when the file is shorter); form: bytes 8..11
File(magic, form, chunks) ==
  [magic |-> magic, form |-> form, chunks |-> chunks]

EmptyFile == File("", "", << >>)

NoParams ==
  [err |-> "", nchannels |-> 0, sampwidth |-> 0, framerate |-> 0,
   nframes |-> 0, comptype |-> "", compname |-> "", framesize |-> 0,
   size |-> 0, data |-> << >>, fmt_chunk_read |-> FALSE]

ReadError(msg) == [NoParams EXCEPT !.err = msg]

\* Wave_read._read_fmt_chunk
read_fmt_chunk(c) ==
  LET sampwidth == (c.bits + 7) \div 8
  IN  IF c.tag # WAVE_FORMAT_PCM THEN ReadError("unknown format")
      ELSE IF sampwidth = 0 THEN ReadError("bad sample width")
      ELSE IF c.nchannels = 0 THEN ReadError("bad # of channels")
      ELSE [NoParams EXCEPT !.nchannels = c.nchannels,
                            !.sampwidth = sampwidth,
                            !.framerate = c.framerate,
                            !.framesize = c.nchannels * sampwidth,
                            !.comptype = "NONE",
                            !.compname = "not compressed",
                            !.fmt_chunk_read = TRUE]

\* the chunk loop of Wave_read.initfp, from chunk i on
RECURSIVE read_chunks(_, _, _)
read_chunks(chunks, i, st) ==
  IF i > Len(chunks)
  THEN ReadError("fmt chunk and/or data chunk missing")
  ELSE LET c == chunks[i]
       IN  IF c.id = "fmt "
           THEN LET r == read_fmt_chunk(c)
                IN  IF r.err # "" THEN r ELSE read_chunks(chunks, i + 1, r)
           ELSE IF c.id = "data"
           THEN IF ~st.fmt_chunk_read
                THEN ReadError("data chunk before fmt chunk")
                ELSE [st EXCEPT !.nframes = c.size \div st.framesize,
                                !.size = c.size,
                                !.data = c.bytes]
           ELSE read_chunks(chunks, i + 1, st)

\* initfp without the test of the RIFF id
initfp_no_riff_check(file) ==
  IF file.magic = "" THEN ReadError("EOFError")
  ELSE IF file.form # "WAVE" THEN ReadError("not a WAVE file")
  ELSE read_chunks(file.chunks, 1, NoParams)

\* Wave_read.initfp: the parsed reader state, err # "" when it raises
initfp(file) ==
  IF file.magic = "" THEN ReadError("EOFError")
  ELSE IF file.magic # "RIFF"
  THEN ReadError("file does not start with RIFF id")
  ELSE IF file.form # "WAVE" THEN ReadError("not a WAVE file")
  ELSE read_chunks(file.chunks, 1, NoParams)

\* readframes that takes nframes for a number of bytes
readframes_counts_bytes(rd, nframes) ==
  LET have == Len(rd.data)
  IN  IF nframes = 0 THEN << >>
      ELSE SubSeq(rd.data, 1, IF nframes < have THEN nframes ELSE have)

\* Wave_read.readframes(nframes): at most nframes whole frames, and never
\* more bytes than the data chunk still holds
readframes(rd, nframes) ==
  LET want == nframes * rd.framesize
      have == Len(rd.data)
  IN  IF nframes = 0 THEN << >>
      ELSE SubSeq(rd.data, 1, IF want < have THEN want ELSE have)

----------------------------------------------------------------------------
\* The wave module's writer (Wave_write)

\* 2^31 - 1, which is (2^32 - 1) \div 2
HalfU32Max == 32768 * 65535 + 32767

U16Max == 65535

\* a * r <= 2^32 - 1 for a >= 1, computed without leaving 32-bit integers;
\* for a = 1 every r >= 0 of the model is below 2^32
ProductFitsU32(a, r) ==
  /\ r >= 0
  /\ \/ a = 1
     \/ r <= 2 * (HalfU32Max \div a) + ((2 * (HalfU32Max % a) + 1) \div a)

\* struct.pack('<L4s4sLHHLLHH4s', ...) of _write_header succeeds
PackFits(nchannels, sampwidth, framerate, datalength) ==
  /\ datalength >= 0        \* 36 + datalength stays below 2^32 in the model
  /\ nchannels >= 0 /\ nchannels <= U16Max
  /\ framerate >= 0
  /\ ProductFitsU32(nchannels * sampwidth, framerate)
  /\ nchannels * sampwidth <= U16Max
  /\ sampwidth * 8 <= U16Max

\* Wave_write after initfp
NewWriter ==
  [nchannels |-> 0, sampwidth |-> 0, framerate |-> 0, nframes |-> 0,
   comptype |-> "", compname |-> "", headerwritten |-> FALSE,
   datawritten |-> 0, datalength |-> 0]

Outcome(w, file, err) == [w |-> w, file |-> file, err |-> err]

\* setparams whose setframerate accepts any rate
setparams_no_rate_check(w, file, p) ==
  LET w1 == [w EXCEPT !.nchannels = p[1]]
      w2 == [w1 EXCEPT !.sampwidth = p[2]]
      w3 == [w2 EXCEPT !.framerate = p[3]]
      w4 == [w3 EXCEPT !.nframes = p[4]]
      w5 == [w4 EXCEPT !.comptype = p[5], !.compname = p[6]]
  IN  IF w.datawritten # 0
      THEN Outcome(w, file, "cannot change parameters after starting to write")
      ELSE IF p[1] < 1 THEN Outcome(w, file, "bad # of channels")
      ELSE IF p[2] < 1 \/ p[2] > 4 THEN Outcome(w1, file, "bad sample width")
      ELSE IF p[5] # "NONE"
      THEN Outcome(w4, file, "unsupported compression type")
      ELSE Outcome(w5, file, "")

\* Wave_write.setparams: the setters run in order and the first failing one
\* raises, leaving the earlier fields set
setparams(w, file, p) ==
  LET w1 == [w EXCEPT !.nchannels = p[1]]
      w2 == [w1 EXCEPT !.sampwidth = p[2]]
      w3 == [w2 EXCEPT !.framerate = p[3]]
      w4 == [w3 EXCEPT !.nframes = p[4]]
      w5 == [w4 EXCEPT !.comptype = p[5], !.compname = p[6]]
  IN  IF w.datawritten # 0
      THEN Outcome(w, file, "cannot change parameters after starting to write")
      ELSE IF p[1] < 1 THEN Outcome(w, file, "bad # of channels")
      ELSE IF p[2] < 1 \/ p[2] > 4 THEN Outcome(w1, file, "bad sample width")
      ELSE IF p[3] <= 0 THEN Outcome(w2, file, "bad frame rate")
      ELSE IF p[5] # "NONE"
      THEN Outcome(w4, file, "unsupported compression type")
      ELSE Outcome(w5, file, "")

\* Wave_write._write_header(initlength); can_write is whether file.write
\* succeeds
write_header(w, file, initlength, can_write) ==
  LET framesize == w.nchannels * w.sampwidth
      nframes == IF w.nframes = 0 THEN initlength \div framesize
                 ELSE w.nframes
      datalength == nframes * framesize
      w1 == [w EXCEPT !.nframes = nframes, !.datalength = datalength]
  IN  IF ~can_write THEN Outcome(w, file, "OSError")
      ELSE IF ~PackFits(w.nchannels, w.sampwidth, w.framerate, datalength)
      THEN Outcome(w1, File("RIFF", "", << >>), "struct.error")
      ELSE Outcome([w1 EXCEPT !.headerwritten = TRUE],
                   File("RIFF", "WAVE",
                        <<FmtChunk(WAVE_FORMAT_PCM, w.nchannels, w.framerate,
                                   w.sampwidth * 8),
                          DataChunk(datalength, << >>)>>),
                   "")

\* Wave_write._ensure_header_written(datasize)
ensure_header_written(w, file, datasize, can_write) ==
  IF w.headerwritten THEN Outcome(w, file, "")
  ELSE IF w.nchannels = 0 THEN Outcome(w, file, "# channels not specified")
  ELSE IF w.sampwidth = 0 THEN Outcome(w, file, "sample width not specified")
  ELSE IF w.framerate = 0
  THEN Outcome(w, file, "sampling rate not specified")
  ELSE write_header(w, file, datasize, can_write)

\* Wave_write._patchheader: rewrite the data length with what was written
patchheader(w, file) ==
  Outcome([w EXCEPT !.datalength = w.datawritten],
          [file EXCEPT !.chunks[2].size = w.datawritten],
          "")

patch_if_needed(o) ==
  IF o.w.datalength # o.w.datawritten THEN patchheader(o.w, o.file) ELSE o

\* Wave_write.writeframes(data) = writeframesraw(data), then _patchheader
\* when the announced and the written lengths differ
writeframes(w, file, data, can_write) ==
  LET h == ensure_header_written(w, file, Len(data), can_write)
      raw == Outcome([h.w EXCEPT !.datawritten = @ + Len(data)],
                     [h.file EXCEPT !.chunks[2].bytes = @ \o data],
                     "")
  IN  IF h.err # "" THEN h ELSE patch_if_needed(raw)

\* Wave_write.close(), up to the finally clause that closes the file
close_writer(w, file, can_write) ==
  LET h == ensure_header_written(w, file, 0, can_write)
  IN  IF h.err # "" THEN h ELSE patch_if_needed(h)

----------------------------------------------------------------------------
\* State of one run

VARIABLES
  argv,             \* sys.argv
  env,              \* what the filesystem allows: can_create, can_write
  disk0,            \* the files on disk before the run
  disk,             \* the files on disk: a set of [path, file]
  pc,               \* position of the run
  new_sample_rate,  \* main's new_sample_rate
  in_wav,           \* the Wave_read object
  params,           \* in_wav.getparams()
  output_wav,       \* the derived output path
  out_wav,          \* the Wave_write object
  frames,           \* the bytes returned by in_wav.readframes
  exc,              \* message of the exception being propagated, or ""
  stdout,           \* the lines printed so far
  exitcode,         \* the process exit code, -1 while running
  handles,          \* the open file handles, a subset of {"in", "out"}
  opens             \* how many times each file has been opened

vars == <<argv, env, disk0, disk, pc, new_sample_rate, in_wav, params,
          output_wav, out_wav, frames, exc, stdout, exitcode, handles, opens>>

Exists(d, path) == \E e \in d : e.path = path

Content(d, path) == (CHOOSE e \in d : e.path = path).file

\* open(path, 'wb') and later writes: path holds exactly file afterwards
Store(d, path, file) ==
  {e \in d : e.path # path} \cup {[path |-> path, file |-> file]}

Line(kind, msg, old, new, path) ==
  [kind |-> kind, msg |-> msg, old |-> old, new |-> new, path |-> path]

----------------------------------------------------------------------------
\* The inputs of a run

ScriptName == <<"s">>

InputName == <<"i", "n", "p", "u", "t">> \o WavExt

Paths ==
  { InputName,
    <<"d", "/">> \o InputName,
    <<"d", "\\">> \o InputName,
    <<"c", "\\", "d", "/">> \o InputName }

RateArgs ==
  { <<"5", "0", "4", "0", "0">>,
    <<"0">>,
    <<"-", "1">>,
    <<"1", "0", "7", "3", "7", "4", "1", "8", "2", "4">>,
    <<" ", "+", "5", "_", "0", " ">>,
    <<"4", ".", "5">>,
    <<"x">> }

Argvs ==
  {<<ScriptName, p, r>> : p \in Paths, r \in RateArgs}
    \cup {<<ScriptName, p>> : p \in Paths}
    \cup {<<ScriptName, p, <<"1">>, <<"2">>>> : p \in Paths}

\* n payload bytes, all different
Bytes(n) == [i \in 1..n |-> i]

ListChunk == Chunk("LIST", 2, 0, 0, 0, 0, <<201, 202>>)

\* a well-formed PCM file: the data chunk holds nframes whole frames
WavFile(nchannels, bits, framerate, nframes, extra) ==
  LET n == nframes * nchannels * ((bits + 7) \div 8)
      fmt == <<FmtChunk(WAVE_FORMAT_PCM, nchannels, framerate, bits)>>
      data == <<DataChunk(n, Bytes(n))>>
  IN  File("RIFF", "WAVE",
           IF extra THEN fmt \o <<ListChunk>> \o data ELSE fmt \o data)

ValidFiles ==
  {WavFile(c, b, 48000, n, x) :
     c \in {1, 2}, b \in {8, 16}, n \in 0..MaxFrames, x \in BOOLEAN}
    \cup {WavFile(1, 16, 8000, MaxFrames, FALSE)}

Fmt16 == FmtChunk(WAVE_FORMAT_PCM, 2, 48000, 16)

MalformedFiles ==
  { EmptyFile,
    File("JUNK", "WAVE", <<Fmt16, DataChunk(4, Bytes(4))>>),
    File("RIFF", "AVI ", <<Fmt16, DataChunk(4, Bytes(4))>>),
    File("RIFF", "WAVE", <<DataChunk(4, Bytes(4))>>),
    File("RIFF", "WAVE", <<Fmt16>>),
    File("RIFF", "WAVE", <<DataChunk(4, Bytes(4)), Fmt16>>),
    File("RIFF", "WAVE",
         <<FmtChunk(3, 2, 48000, 16), DataChunk(4, Bytes(4))>>),
    File("RIFF", "WAVE",
         <<FmtChunk(WAVE_FORMAT_PCM, 0, 48000, 16), DataChunk(4, Bytes(4))>>),
    File("RIFF", "WAVE",
         <<FmtChunk(WAVE_FORMAT_PCM, 2, 48000, 0), DataChunk(4, Bytes(4))>>),
    File("RIFF", "WAVE",
         <<FmtChunk(WAVE_FORMAT_PCM, 1, 48000, 40), DataChunk(5, Bytes(5))>>),
    \* the data chunk announces two frames, the file ends after one
    File("RIFF", "WAVE", <<Fmt16, DataChunk(8, Bytes(4))>>),
    \* the data chunk ends inside a frame
    File("RIFF", "WAVE", <<Fmt16, DataChunk(6, Bytes(6))>>) }

InputFiles == ValidFiles \cup MalformedFiles

Envs ==
  { [can_create |-> TRUE, can_write |-> TRUE],
    [can_create |-> TRUE, can_write |-> FALSE],
    [can_create |-> FALSE, can_write |-> FALSE] }

input_wav == argv[2]

Init ==
  /\ argv \in Argvs
  /\ env \in Envs
  /\ disk0 \in {{}} \cup {{[path |-> argv[2], file |-> f]} : f \in InputFiles}
  /\ disk = disk0
  /\ pc = "main"
  /\ new_sample_rate = 0
  /\ in_wav = NoParams
  /\ params = << >>
  /\ output_wav = None
  /\ out_wav = NewWriter
  /\ frames = << >>
  /\ exc = ""
  /\ stdout = << >>
  /\ exitcode = -1
  /\ handles = {}
  /\ opens = [in |-> 0, out |-> 0]

----------------------------------------------------------------------------
\* The steps of a run

\* main that reports a non-integer rate but goes on
main_no_exit_on_value_error ==
  /\ pc = "main"
  /\ IF Len(argv) # 3
     THEN /\ stdout' = Append(stdout, Line("usage", "Usage", 0, 0, << >>))
          /\ exitcode' = 1
          /\ pc' = "exit"
          /\ UNCHANGED new_sample_rate
     ELSE IF ~int_accepts(argv[3])
     THEN /\ stdout' = Append(stdout,
                 Line("error", "The sample rate must be an integer.",
                      0, 0, << >>))
          /\ pc' = "open_in"
          /\ UNCHANGED <<new_sample_rate, exitcode>>
     ELSE /\ new_sample_rate' = int_value(argv[3])
          /\ pc' = "open_in"
          /\ UNCHANGED <<stdout, exitcode>>
  /\ UNCHANGED <<argv, env, disk0, disk, in_wav, params, output_wav, out_wav,
                 frames, exc, handles, opens>>

\* main, up to the call of change_sample_rate
main ==
  /\ pc = "main"
  /\ IF Len(argv) # 3
     THEN /\ stdout' = Append(stdout, Line("usage", "Usage", 0, 0, << >>))
          /\ exitcode' = 1
          /\ pc' = "exit"
          /\ UNCHANGED new_sample_rate
     ELSE IF ~int_accepts(argv[3])
     THEN /\ stdout' = Append(stdout,
                 Line("error", "The sample rate must be an integer.",
                      0, 0, << >>))
          /\ exitcode' = 1
          /\ pc' = "exit"
          /\ UNCHANGED new_sample_rate
     ELSE /\ new_sample_rate' = int_value(argv[3])
          /\ pc' = "open_in"
          /\ UNCHANGED <<stdout, exitcode>>
  /\ UNCHANGED <<argv, env, disk0, disk, in_wav, params, output_wav, out_wav,
                 frames, exc, handles, opens>>

\* wave.open(input_wav, 'rb'): open the file and parse it; when parsing
\* raises, Wave_read.__init__ closes the file it opened
open_input ==
  /\ pc = "open_in"
  /\ IF ~Exists(disk, input_wav)
     THEN /\ exc' = "No such file or directory"
          /\ pc' = "except"
          /\ UNCHANGED <<in_wav, handles, opens>>
     ELSE LET rd == initfp(Content(disk, input_wav))
          IN  /\ opens' = [opens EXCEPT !.in = @ + 1]
              /\ IF rd.err # ""
                 THEN /\ exc' = rd.err
                      /\ pc' = "except"
                      /\ UNCHANGED <<in_wav, handles>>
                 ELSE /\ in_wav' = rd
                      /\ handles' = handles \cup {"in"}
                      /\ pc' = "name"
                      /\ UNCHANGED exc
  /\ UNCHANGED <<argv, env, disk0, disk, new_sample_rate, params, output_wav,
                 out_wav, frames, stdout, exitcode>>

\* in_wav.getparams()
getparams(rd) ==
  <<rd.nchannels, rd.sampwidth, rd.framerate, rd.nframes, rd.comptype,
    rd.compname>>

\* params = in_wav.getparams() and the derivation of the output file name;
\* path + ... raises TypeError when path is None
derive_output_name ==
  /\ pc = "name"
  /\ params' = getparams(in_wav)
  /\ LET pn == get_path_name(input_wav)
         path == pn[1]
         input_wav_name == pn[2]
         old_sample_rate == params'[3]
         name == output_wav_name(input_wav_name, old_sample_rate,
                                 new_sample_rate)
     IN  IF path = None
         THEN /\ exc' = "unsupported operand type(s) for +"
              /\ pc' = "close_in"
              /\ UNCHANGED output_wav
         ELSE /\ output_wav' = path \o name \o WavExt
              /\ pc' = "open_out"
              /\ UNCHANGED exc
  /\ UNCHANGED <<argv, env, disk0, disk, new_sample_rate, in_wav, out_wav,
                 frames, stdout, exitcode, handles, opens>>

\* wave.open(output_wav, 'wb'): creates or truncates the file
open_output ==
  /\ pc = "open_out"
  /\ IF ~env.can_create
     THEN /\ exc' = "Permission denied"
          /\ pc' = "close_in"
          /\ UNCHANGED <<disk, out_wav, handles, opens>>
     ELSE /\ disk' = Store(disk, output_wav, EmptyFile)
          /\ out_wav' = NewWriter
          /\ handles' = handles \cup {"out"}
          /\ opens' = [opens EXCEPT !.out = @ + 1]
          /\ pc' = "setparams"
          /\ UNCHANGED exc
  /\ UNCHANGED <<argv, env, disk0, new_sample_rate, in_wav, params,
                 output_wav, frames, stdout, exitcode>>

\* set_params that passes the old sample rate on
set_params_old_rate ==
  /\ pc = "setparams"
  /\ LET o == setparams(out_wav, Content(disk, output_wav),
                        <<params[1], params[2], params[3], params[4],
                          params[5], params[6]>>)
     IN  /\ out_wav' = o.w
         /\ exc' = o.err
         /\ pc' = IF o.err # "" THEN "close_out" ELSE "copy"
  /\ UNCHANGED <<argv, env, disk0, disk, new_sample_rate, in_wav, params,
                 output_wav, frames, stdout, exitcode, handles, opens>>

\* out_wav.setparams((num_channels, sample_width, new_sample_rate,
\*                    num_frames, params[4], params[5]))
set_params ==
  /\ pc = "setparams"
  /\ LET o == setparams(out_wav, Content(disk, output_wav),
                        <<params[1], params[2], new_sample_rate, params[4],
                          params[5], params[6]>>)
     IN  /\ out_wav' = o.w
         /\ exc' = o.err
         /\ pc' = IF o.err # "" THEN "close_out" ELSE "copy"
  /\ UNCHANGED <<argv, env, disk0, disk, new_sample_rate, in_wav, params,
                 output_wav, frames, stdout, exitcode, handles, opens>>

\* frames = in_wav.readframes(num_frames); out_wav.writeframes(frames)
copy_frames ==
  /\ pc = "copy"
  /\ frames' = readframes(in_wav, params[4])
  /\ LET o == writeframes(out_wav, Content(disk, output_wav), frames',
                          env.can_write)
     IN  /\ out_wav' = o.w
         /\ disk' = Store(disk, output_wav, o.file)
         /\ exc' = o.err
  /\ pc' = "close_out"
  /\ UNCHANGED <<argv, env, disk0, new_sample_rate, in_wav, params,
                 output_wav, stdout, exitcode, handles, opens>>

\* close_output whose close() leaves the file open when it raises
close_output_no_finally ==
  /\ pc = "close_out"
  /\ LET o == close_writer(out_wav, Content(disk, output_wav), env.can_write)
     IN  /\ out_wav' = o.w
         /\ disk' = Store(disk, output_wav, o.file)
         /\ exc' = IF o.err # "" THEN o.err ELSE exc
         /\ handles' = IF o.err # "" THEN handles ELSE handles \ {"out"}
  /\ pc' = "close_in"
  /\ UNCHANGED <<argv, env, disk0, new_sample_rate, in_wav, params,
                 output_wav, frames, stdout, exitcode, opens>>

\* leaving "with ... as out_wav": Wave_write.close(); an exception raised by
\* close() replaces the one being propagated, and the file is closed anyway
close_output ==
  /\ pc = "close_out"
  /\ LET o == close_writer(out_wav, Content(disk, output_wav), env.can_write)
     IN  /\ out_wav' = o.w
         /\ disk' = Store(disk, output_wav, o.file)
         /\ exc' = IF o.err # "" THEN o.err ELSE exc
  /\ handles' = handles \ {"out"}
  /\ pc' = "close_in"
  /\ UNCHANGED <<argv, env, disk0, new_sample_rate, in_wav, params,
                 output_wav, frames, stdout, exitcode, opens>>

\* leaving "with ... as in_wav": Wave_read.close()
close_input ==
  /\ pc = "close_in"
  /\ handles' = handles \ {"in"}
  /\ pc' = IF exc # "" THEN "except" ELSE "print"
  /\ UNCHANGED <<argv, env, disk0, disk, new_sample_rate, in_wav, params,
                 output_wav, out_wav, frames, exc, stdout, exitcode, opens>>

\* print(f"Sample rate changed from ... and saved as {output_wav}")
print_success ==
  /\ pc = "print"
  /\ stdout' = Append(stdout,
         Line("success", "", params[3], new_sample_rate, output_wav))
  /\ pc' = "return"
  /\ UNCHANGED <<argv, env, disk0, disk, new_sample_rate, in_wav, params,
                 output_wav, out_wav, frames, exc, exitcode, handles, opens>>

\* except Exception as e: print(f"Error: {e}")
handle_error ==
  /\ pc = "except"
  /\ stdout' = Append(stdout, Line("error", exc, 0, 0, << >>))
  /\ exc' = ""
  /\ pc' = "return"
  /\ UNCHANGED <<argv, env, disk0, disk, new_sample_rate, in_wav, params,
                 output_wav, out_wav, frames, exitcode, handles, opens>>

\* change_sample_rate returns, main returns, the interpreter exits with 0
exit ==
  /\ pc = "return"
  /\ exitcode' = 0
  /\ pc' = "exit"
  /\ UNCHANGED <<argv, env, disk0, disk, new_sample_rate, in_wav, params,
                 output_wav, out_wav, frames, exc, stdout, handles, opens>>

\* lines 79-108: the steps of change_sample_rate
change_sample_rate ==
  \/ open_input
  \/ derive_output_name
  \/ open_output
  \/ set_params
  \/ copy_frames
  \/ close_output
  \/ close_input
  \/ print_success
  \/ handle_error

Next == main \/ change_sample_rate \/ exit

Spec == Init /\ [][Next]_vars

----------------------------------------------------------------------------
\* Vocabulary of the properties, defined on the inputs and the files alone

Done == pc = "exit"

Rate50400 == <<"5", "0", "4", "0", "0">>

RateHuge == <<"1", "0", "7", "3", "7", "4", "1", "8", "2", "4">>

RateGrouped == <<" ", "+", "5", "_", "0", " ">>

\* the arguments that denote an integer, and the integer each denotes
IntegerArgs == {Rate50400, <<"0">>, <<"-", "1">>, RateHuge, RateGrouped}

GivenRate ==
  CASE argv[3] = Rate50400 -> 50400
    [] argv[3] = <<"0">> -> 0
    [] argv[3] = <<"-", "1">> -> 0 - 1
    [] argv[3] = RateHuge -> 1073741824
    [] argv[3] = RateGrouped -> 50

IntegerRateGiven == Len(argv) = 3 /\ argv[3] \in IntegerArgs

PositiveRateGiven == IntegerRateGiven /\ GivenRate > 0

InputExists == Exists(disk0, input_wav)

InputFile == Content(disk0, input_wav)

ValidInput == InputExists /\ InputFile \in ValidFiles

HasChunk(f, id) == \E i \in 1..Len(f.chunks) : f.chunks[i].id = id

ChunkOf(f, id) ==
  f.chunks[CHOOSE i \in 1..Len(f.chunks) : f.chunks[i].id = id]

\* the frame bytes a file holds
FrameBytes(f) == IF HasChunk(f, "data") THEN ChunkOf(f, "data").bytes ELSE << >>

HasHeader(f) ==
  /\ f.magic = "RIFF" /\ f.form = "WAVE"
  /\ HasChunk(f, "fmt ") /\ HasChunk(f, "data")

\* the header fields of a file that has a header
Header(f) ==
  LET fmt == ChunkOf(f, "fmt ")
      sampwidth == (fmt.bits + 7) \div 8
  IN  [tag |-> fmt.tag, nchannels |-> fmt.nchannels, sampwidth |-> sampwidth,
       framerate |-> fmt.framerate,
       nframes |-> ChunkOf(f, "data").size \div (fmt.nchannels * sampwidth)]

\* the files the run has created
Created == {e \in disk : ~Exists(disk0, e.path)}

\* rate * channels * sample width of the input fits the 32-bit byte rate
ByteRateFits ==
  ProductFitsU32(Header(InputFile).nchannels * Header(InputFile).sampwidth,
                 GivenRate)

Printed(kind) == \E i \in 1..Len(stdout) : stdout[i].kind = kind

HasDirectory == input_wav # InputName

\* the directory accepts new files and writes to them succeed
FilesystemWorks == env.can_create /\ env.can_write

\* <dir><name>--sample_rate_changed__<old>_to_<new>.wav
ExpectedOutputPath ==
  SubSeq(input_wav, 1, Len(input_wav) - 4) \o SuffixText
    \o IntToStr(Header(InputFile).framerate) \o ToText
    \o IntToStr(GivenRate) \o WavExt

----------------------------------------------------------------------------
\* Properties

HeaderCarriedOver(f) ==
  /\ HasHeader(f)
  /\ Header(f).nchannels = Header(InputFile).nchannels
  /\ Header(f).sampwidth = Header(InputFile).sampwidth
  /\ Header(f).nframes = Header(InputFile).nframes
  /\ Header(f).tag = Header(InputFile).tag
  /\ Header(f).framerate = GivenRate

C3_OutputPath ==
  (Done /\ ValidInput /\ PositiveRateGiven /\ FilesystemWorks)
    => Exists(disk, ExpectedOutputPath)

\* C4: every failure of a run (here with a working filesystem) ends with an
\* error line and a non-zero exit code; the exit code is 0 only when the
\* output file was written.
C4_ExitCode ==
  (Done /\ FilesystemWorks)
    => /\ Printed("error") \/ Printed("usage") => exitcode # 0
       /\ exitcode = 0 => Printed("success")

\* C5: an input whose first four bytes are not RIFF is rejected with an
\* error, the output file is never opened and the files on disk stay as they
\* were; the output is opened only after the input was opened and parsed.
C5_NotRiffRejected ==
  /\ (InputExists /\ InputFile.magic # "RIFF")
       => /\ opens.out = 0
          /\ disk = disk0
          /\ Done => /\ Len(stdout) = 1
                     /\ stdout[1].kind # "success"
                     /\ IntegerRateGiven =>
                          /\ stdout[1].kind = "error"
                          /\ stdout[1].msg \in
                               {"file does not start with RIFF id", "EOFError"}
  /\ opens.out > 0 => opens.in = 1 /\ in_wav.fmt_chunk_read

\* C5 witness: a finished run on a file that starts with other bytes
C5_Witness ==
  /\ Done /\ InputExists /\ InputFile.magic = "JUNK"
  /\ opens.in = 1 /\ Printed("error") /\ IntegerRateGiven

InputTruncated ==
  /\ InputExists /\ HasHeader(InputFile)
  /\ ChunkOf(InputFile, "data").size > Len(ChunkOf(InputFile, "data").bytes)

\* C7: the frame bytes read are as many as the header declares, and an input
\* whose data chunk declares more bytes than the file holds is rejected with
\* an error instead of being copied.
C7_TruncatedRejected ==
  /\ (Done /\ Printed("success"))
       => Len(frames) = params[4] * params[1] * params[2]
  /\ (Done /\ InputTruncated /\ IntegerRateGiven)
       => /\ Printed("error")
          /\ \A e \in Created : FrameBytes(e.file) = << >>

\* C8: with an argument count other than two, or a rate argument that is not
\* an integer, no file is ever opened or created, and the run ends after one
\* usage or error line with exit code 1.
C8_ArgumentsFirst ==
  (~IntegerRateGiven)
    => /\ pc \in {"main", "exit"}
       /\ opens.in = 0 /\ opens.out = 0 /\ handles = {}
       /\ disk = disk0
       /\ Done => /\ exitcode = 1
                  /\ Len(stdout) = 1
                  /\ stdout[1].kind = IF Len(argv) # 3 THEN "usage" ELSE "error"

\* C8 witness: a finished run whose rate argument is not an integer
C8_Witness ==
  /\ Done /\ Len(argv) = 3 /\ argv[3] = <<"4", ".", "5">>
  /\ exitcode = 1 /\ InputExists

\* C9: once change_sample_rate has returned no file handle is open, and
\* neither file is opened more than once in a run.
C9_HandlesReleased ==
  /\ pc \in {"return", "exit"} => handles = {}
  /\ opens.in <= 1 /\ opens.out <= 1

\* C9 witness: a run that failed after both files were opened, and is over
C9_Witness ==
  /\ Done /\ opens.in = 1 /\ opens.out = 1 /\ Printed("error") /\ handles = {}

\* C10: a run of change_sample_rate that ends in the error branch leaves no
\* file behind that was not there before (the filesystem working); in
\* particular not with a valid input and a new rate of 0 or below.
C10_NoFileOnError ==
  (Done /\ exitcode = 0 /\ Printed("error") /\ FilesystemWorks)
    => Created = {}

====
